---- MODULE Spec2Model ----
(***************************************************************************)
(* Model of the Discord events bot (eventsbot): the reconciliation run     *)
(* update_events, the DiscordGuild facade with its TTL cache, the history  *)
(* store, and the Event equality predicate.                                *)
(*                                                                         *)
(* Representation of Python values:                                        *)
(*   - a time string is a record [inst, fmt]: the instant it denotes and   *)
(*     the way it is written ("offset" for ...+00:00, "Z" for ...Z); two   *)
(*     strings are equal iff both fields are equal;                        *)
(*   - a string is a string, and Python's None is the string "None";       *)
(*   - a list is a sequence.                                               *)
(***************************************************************************)
EXTENDS Integers, Sequences, FiniteSets, TLC

\* ------------------------------------------------------------------ bounds
MaxFeed == 2        \* longest calendar feed (candidates per run)
MaxTicks == 1       \* clock ticks the model follows
MaxExt == 1         \* changes made to the platform or the calendar by others
MaxRuns == 2        \* reconciliation runs of one process
MaxFail == 1        \* remote calls and fetches that fail
MaxDuration == 4    \* longest duration string tried exhaustively
RecursionLimit == 3 \* nested calls the interpreter allows (about 1000 in CPython)

\* ------------------------------------------------------- program constants
_events_list_ttl == 3600
_channels_list_ttl == 3600
DEFAULT_PRIVACY_LEVEL == 2

\* A clock tick takes the cache past its TTL.
TickSeconds == _events_list_ttl + 1

None == "None"
EmptyId == ""

\* ------------------------------------------------------------- Event model
Time(inst, fmt) == [inst |-> inst, fmt |-> fmt]

Event(event_id, name, description, start_time, end_time, metadata, privacy_level) ==
    [event_id |-> event_id, name |-> name, description |-> description,
     start_time |-> start_time, end_time |-> end_time, metadata |-> metadata,
     privacy_level |-> privacy_level]

\* Event.__eq__ with the comparison of event_id added (a plausible slip:
\* the dataclass default equality compares every field).
Event_eq_all_fields(self, other) ==
    /\ self.event_id = other.event_id
    /\ self.name = other.name
    /\ self.start_time = other.start_time
    /\ self.end_time = other.end_time
    /\ self.metadata = other.metadata
    /\ self.privacy_level = other.privacy_level

\* Event.__eq__ without the metadata comparison.
Event_eq_no_metadata(self, other) ==
    /\ self.name = other.name
    /\ self.start_time = other.start_time
    /\ self.end_time = other.end_time
    /\ self.privacy_level = other.privacy_level

\* Event.__eq__: both operands are Event values, so the isinstance branch is
\* never taken; the fields are compared with ==, the times as strings.
Event_eq(self, other) ==
    /\ self.name = other.name
    /\ self.start_time = other.start_time
    /\ self.end_time = other.end_time
    /\ self.metadata = other.metadata
    /\ self.privacy_level = other.privacy_level

\* Membership that looks at the first element only.
EventIn_first_only(event, events) ==
    Len(events) > 0 /\ Event_eq(events[1], event)

\* `event in events`: Python's list membership, which uses Event.__eq__.
EventIn(event, events) ==
    \E k \in 1..Len(events) : Event_eq(events[k], event)

\* ------------------------------------------------------------ small helpers
Range(s) == {s[k] : k \in 1..Len(s)}

\* The elements of a set as a list, in one fixed order.
RECURSIVE ListOf(_)
ListOf(S) ==
    IF S = {} THEN <<>>
    ELSE LET m == CHOOSE e \in S : TRUE
         IN  <<m>> \o ListOf(S \ {m})

RECURSIVE SeqsUpTo(_, _)
SeqsUpTo(S, n) ==
    IF n = 0 THEN {<<>>}
    ELSE LET shorter == SeqsUpTo(S, n - 1)
         IN  shorter \cup {Append(s, x) : s \in {t \in shorter : Len(t) = n - 1}, x \in S}

\* ------------------------------------------------------------ value domains
Location1 == [location |-> "L1"]
Location2 == [location |-> "L2"]

\* The events get_this_week_events can yield: event_id None, times written by
\* isoformat() of a UTC datetime, metadata {"location": ...}.
CalendarEvent(name) ==
    Event(None, name, "d", Time(1, "offset"), Time(2, "offset"), Location1,
          DEFAULT_PRIVACY_LEVEL)

Candidates == {CalendarEvent("n1"), CalendarEvent("n2")}

Feeds == SeqsUpTo(Candidates, MaxFeed)

\* A scheduled event as the platform's API returns it.
ApiEvent(id, name, description, start, end, metadata) ==
    [id |-> id, name |-> name, description |-> description,
     scheduled_start_time |-> start, scheduled_end_time |-> end,
     entity_metadata |-> metadata]

\* A scheduled event somebody else put on the platform: like a candidate, but
\* without description.
ForeignEvent(id, c) ==
    ApiEvent(id, c.name, None, c.start_time, c.end_time, c.metadata)

\* A history record.
Record(event_id, message_id, channel_id) ==
    [event_id |-> event_id, message_id |-> message_id, channel_id |-> channel_id]

ChannelId == "c1"
\* The message id the platform gives to the announcement of an event: one
\* message per created event, so the ids are distinct.
MessageIdOf(event_id) == "m" \o event_id

\* The content of the history file: a JSON list of records, or text that is
\* no JSON.
File(valid, records) == [valid |-> valid, records |-> records]
Corrupt == File(FALSE, <<>>)

\* config["discord"].get("message", {}): empty, or with the link option.
MessageConfigs == {[set |-> FALSE, link |-> FALSE], [set |-> TRUE, link |-> TRUE]}

ListOutcomes == {"ok", "empty", "raise"}
CreateOutcomes == {"ok", "noid", "raise"}
SendOutcomes == {"ok", "raise_invite", "raise_message"}
DeleteOutcomes == {"204", "404", "500", "raise"}
FetchOutcomes == {"ok", "request_error", "malformed"}

\* ----------------------------------------------------------- configuration
\* What the configuration source holds, as far as check_config looks at it:
\* `source` is what was read ("mapping" a dict, "none" the None yaml gives for
\* an empty file, "unreadable" a file open() fails on), `root` the mandatory
\* top-level keys present, `discord` the value under "discord" ("absent",
\* "none" or "mapping"), `options` the mandatory keys present in it.
Config(source, root, discord, options) ==
    [source |-> source, root |-> root, discord |-> discord, options |-> options]

RootOptions == {"calendar_url"}
DiscordOptions == {"token", "bot_url", "server_id"}

\* The dicts setup_from_env can build: "discord" is always a dict, a key is
\* there when its environment variable is set.
EnvConfigs ==
    {Config("mapping", r, "mapping", o) : r \in SUBSET RootOptions,
                                         o \in SUBSET DiscordOptions}

\* What setup_from_cli can read from the file it is given.
CliConfigs ==
    {Config("mapping", r, "mapping", o) : r \in SUBSET RootOptions,
                                         o \in SUBSET DiscordOptions}
    \cup {Config("mapping", r, d, {}) : r \in SUBSET RootOptions, d \in {"absent", "none"}}
    \cup {Config(src, {}, "absent", {}) : src \in {"none", "unreadable"}}

\* check_config with `calendar_url` taken for optional.
check_config_no_url(c) ==
    IF c.source = "none" THEN "TypeError"
    ELSE IF c.discord = "absent" THEN "KeyError"
    ELSE IF c.discord = "none" THEN "TypeError"
    ELSE IF DiscordOptions \subseteq c.options THEN "ok"
    ELSE "KeyError"

\* check_config: the exception it raises, or "ok". `option not in None` is a
\* TypeError; the keys are looked up in the order root, discord.
check_config(c) ==
    IF c.source = "none" THEN "TypeError"
    ELSE IF ~(RootOptions \subseteq c.root) THEN "KeyError"
    ELSE IF c.discord = "absent" THEN "KeyError"
    ELSE IF c.discord = "none" THEN "TypeError"
    ELSE IF DiscordOptions \subseteq c.options THEN "ok"
    ELSE "KeyError"

\* setup_from_env: the config, {} after a KeyError.
setup_from_env(c) ==
    CASE check_config(c) = "ok" -> "config"
      [] check_config(c) = "KeyError" -> "empty"
      [] OTHER -> "uncaught"

\* setup_from_cli: KeyError and OSError are caught and give {}; anything else
\* leaves the function.
setup_from_cli(c) ==
    IF c.source = "unreadable" THEN "empty"
    ELSE CASE check_config(c) = "ok" -> "config"
           [] check_config(c) = "KeyError" -> "empty"
           [] OTHER -> "uncaught"

\* ------------------------------------------------------------------- state
VARIABLES
    platform,           \* the scheduled events on the platform (API objects)
    next_id,            \* the number of the next id the platform hands out
    calendar,           \* the events of this week in the calendar feed
    file,               \* the content of the history file
    now,                \* the clock, in seconds
    ext,                \* changes made by others so far
    fails,              \* calls that failed so far
    message_config,     \* config["discord"].get("message", {})
    once,               \* config["once"]
    guild,              \* DiscordGuild: _events, _events_last_pull
    pc,                 \* where run() is
    runs,               \* update_events calls started
    events, i, history, sent_messages, added_events,   \* update_events locals
    deleted_messages, j,                               \* cleanup_old_messages locals
    run_result,         \* what run() returned
    handler_result,     \* what handle() did with it
    obs,                \* what the current call of update_events did so far
    pair,               \* what is known about this call and the one before it
    lhs, rhs, eq_result, \* two Event values and the result of lhs == rhs
    mode,               \* ConfigMode: how the process was started
    config,             \* what the configuration source holds
    duration, seconds,  \* duration_to_seconds: its argument and its result
    request,            \* one call of _api_request
    platform_channels,  \* the channels of the guild on the platform
    lookup,             \* the last use of the guild's cached lists
    instances           \* with two processes: which one runs, and the other

envVars == <<platform, next_id, calendar, file, now, ext, fails>>
cfgVars == <<message_config, once, mode, config>>
localVars == <<events, i, history, sent_messages, added_events, deleted_messages, j>>
eqVars == <<lhs, rhs, eq_result>>
cacheVars == <<platform_channels, lookup>>
utilVars == <<duration, seconds, request, cacheVars, instances>>
vars == <<envVars, cfgVars, guild, pc, runs, localVars, run_result, handler_result,
          obs, pair, eqVars, utilVars>>

\* ------------------------------------------------------------------ facade
IdOf(n) == ToString(n)

\* _refresh_events with the start time taken for the end time too.
EventOfApi_start_twice(e) ==
    Event(e.id, e.name, IF e.description # None THEN e.description ELSE "",
          e.scheduled_start_time, e.scheduled_start_time, e.entity_metadata,
          DEFAULT_PRIVACY_LEVEL)

\* The Event _refresh_events builds from one element of the API's answer.
EventOfApi(e) ==
    Event(e.id, e.name, IF e.description # None THEN e.description ELSE "",
          e.scheduled_start_time, e.scheduled_end_time, e.entity_metadata,
          DEFAULT_PRIVACY_LEVEL)

\* The list of Events the API's answer for `remote` converts to.
EventsOf(remote) ==
    LET l == ListOf(remote) IN [k \in 1..Len(l) |-> EventOfApi(l[k])]

\* DiscordGuild._refresh_events at time t, the GET ending as o: "ok" is a JSON
\* list, "empty" a body that is no JSON (_api_request returns {}), "raise"
\* an exception (requests' own, or the TypeError of iterating an error object).
_refresh_events(g, remote, t, o) ==
    CASE o = "ok" ->
            [raised |-> FALSE, failures |-> 0, pulls |-> 1,
             guild |-> [g EXCEPT !._events = EventsOf(remote),
                                 !._events_last_pull = t]]
      [] o = "empty" ->
            [raised |-> FALSE, failures |-> 1, pulls |-> 1,
             guild |-> [g EXCEPT !._events = <<>>, !._events_last_pull = t]]
      [] OTHER -> [raised |-> TRUE, failures |-> 1, pulls |-> 1, guild |-> g]

\* The property DiscordGuild.events refreshing from the very second the TTL
\* is reached (`>=`).
guild_events_at_ttl(g, remote, t, o) ==
    IF t - g._events_last_pull >= _events_list_ttl
    THEN _refresh_events(g, remote, t, o)
    ELSE [raised |-> FALSE, failures |-> 0, pulls |-> 0, guild |-> g]

\* The property DiscordGuild.events; `pulls` counts the calls of
\* _refresh_events.
guild_events(g, remote, t, o) ==
    IF t - g._events_last_pull > _events_list_ttl
    THEN _refresh_events(g, remote, t, o)
    ELSE [raised |-> FALSE, failures |-> 0, pulls |-> 0, guild |-> g]

\* DiscordGuild.event_id_exists, on the list the property returned.
event_id_exists(list, event_id) ==
    event_id \in {list[k].event_id : k \in 1..Len(list)}

\* DiscordGuild.create_event: the POST ending as c, then _refresh_events with
\* the GET ending as o. The platform gives the new event the id IdOf(n).
create_event(g, remote, n, t, event, c, o) ==
    IF c = "raise"
    THEN [raised |-> TRUE, failures |-> 1, pulls |-> 0, guild |-> g,
          remote |-> remote, event_id |-> EmptyId]
    ELSE LET remote2 ==
                 IF c = "ok"
                 THEN remote \cup {ApiEvent(IdOf(n), event.name, event.description,
                                            event.start_time, event.end_time,
                                            event.metadata)}
                 ELSE remote
             r == _refresh_events(g, remote2, t, o)
         IN  [raised |-> r.raised, pulls |-> r.pulls,
              failures |-> r.failures + (IF c = "ok" THEN 0 ELSE 1),
              guild |-> r.guild, remote |-> remote2,
              event_id |-> IF c = "ok" THEN IdOf(n) ELSE EmptyId]

\* send_message: create_invite when the link option is set, then
\* create_message; either can raise (channel not found, answer without the
\* key, network error).
send_message(message, event_id, m) ==
    [raised |-> m # "ok",
     failures |-> IF m = "ok" THEN 0 ELSE 1,
     invites |-> IF message.link THEN 1 ELSE 0,
     messages |-> IF m = "raise_invite" THEN 0 ELSE 1,
     message_id |-> MessageIdOf(event_id),
     channel_id |-> ChannelId]

\* ----------------------------------------------------------------- history
\* FileHistory._load without the except clause.
FileHistory_load_uncaught(content) ==
    IF content.valid
    THEN [raised |-> FALSE, warning |-> FALSE, history |-> content.records,
          store |-> content]
    ELSE [raised |-> TRUE, warning |-> FALSE, history |-> <<>>, store |-> content]

\* FileHistory._load doing what its warning says ("resetting it"): the file
\* rewritten as the empty list.
FileHistory_load_reset(content) ==
    IF content.valid
    THEN [raised |-> FALSE, warning |-> FALSE, history |-> content.records,
          store |-> content]
    ELSE [raised |-> FALSE, warning |-> TRUE, history |-> <<>>,
          store |-> File(TRUE, <<>>)]

\* FileHistory._load: json.load, with JSONDecodeError caught; self.history
\* stays the [] of __init__. The file is opened for reading: `store` is its
\* content afterwards.
FileHistory_load(content) ==
    IF content.valid
    THEN [raised |-> FALSE, warning |-> FALSE, history |-> content.records,
          store |-> content]
    ELSE [raised |-> FALSE, warning |-> TRUE, history |-> <<>>, store |-> content]

\* load_history(path): the records of the store at path.
load_history(content) == FileHistory_load(content)

\* FileHistory.save keeping the records the file holds that the list lacks.
FileHistory_save_merge(records) ==
    File(TRUE, SelectSeq(file.records, LAMBDA r : r \notin Range(records))
               \o records)

\* FileHistory.save: the file opened with "w" and the list dumped into it;
\* what the file held is gone.
FileHistory_save(records) == File(TRUE, records)

\* save_history(path, history): the store's content after the save.
save_history(records) == FileHistory_save(records)

\* ------------------------------------------------------------ observations
NoObs ==
    [status |-> "none", fetch |-> "none", file_at_start |-> File(TRUE, <<>>),
     stale_at_start |-> {}, loaded |-> <<>>, load_warning |-> FALSE,
     load_raised |-> FALSE,
     trace |-> <<>>, ctrace |-> <<>>,
     creates |-> 0, invites |-> 0, messages |-> 0, deletes |-> 0, saves |-> 0,
     summary |-> [phrase |-> "none", count |-> 0]]

NoPair ==
    [last_saved |-> FALSE, quiet_prev |-> FALSE, clean_prev |-> FALSE,
     prev_file |-> File(TRUE, <<>>), cur_quiet |-> TRUE, cur_clean |-> TRUE]

\* Somebody else changed the platform or the calendar.
Disturbed(p) ==
    [p EXCEPT !.quiet_prev = FALSE, !.clean_prev = FALSE, !.cur_quiet = FALSE,
              !.cur_clean = FALSE]

\* The list guild.events returned is the platform's list of events.
Faithful(list, remote) == Range(list) = Range(EventsOf(remote))

\* A channel as the API lists it, and the one the announcements go to.
ApiChannel(name, id) == [name |-> name, id |-> id]
AnnouncementChannel == ApiChannel("events", ChannelId)

\* Neither cached list has been used.
NoLookup ==
    [op |-> "none", at |-> 0, elapsed |-> 0, event_pulls |-> 0,
     channel_pulls |-> 0, raised |-> FALSE, cached |-> <<>>, returned |-> <<>>,
     remote |-> <<>>]

\* One process only.
NoInstances == [running |-> 0, waiting |-> <<>>]

\* No call of _api_request is going on.
NoRequest ==
    [pc |-> "none", expected_status |-> "200", error_ok |-> FALSE, depth |-> 0,
     status |-> "none", body |-> "none", logged |-> FALSE]

PyNone == [is_none |-> TRUE, value |-> 0]
PyInt(n) == [is_none |-> FALSE, value |-> n]

\* ------------------------------------------------------------------- Init
InitialEvent == ApiEvent(IdOf(1), "n1", "d", Time(1, "offset"), Time(2, "offset"), Location1)
InitialRecord == Record(IdOf(1), MessageIdOf(IdOf(1)), ChannelId)

Init ==
    /\ platform \in {{}, {InitialEvent}}
    /\ next_id = 2
    /\ calendar \in Feeds
    /\ file \in {File(TRUE, <<>>), File(TRUE, <<InitialRecord>>), Corrupt}
    /\ now = 0
    /\ ext = 0
    /\ fails = 0
    /\ message_config \in MessageConfigs
    /\ mode \in {"ENV", "CLI"}
    /\ config \in (IF mode = "CLI" THEN CliConfigs ELSE EnvConfigs)
    /\ once \in (IF mode = "CLI" THEN BOOLEAN ELSE {FALSE})
    /\ guild = [_events |-> <<>>, _events_last_pull |-> 0]
    /\ pc = "setup"
    /\ runs = 0
    /\ platform_channels = {AnnouncementChannel}
    /\ lookup = NoLookup
    /\ instances = NoInstances
    /\ events = <<>> /\ i = 1 /\ history = <<>> /\ sent_messages = <<>>
    /\ added_events = 0 /\ deleted_messages = <<>> /\ j = 1
    /\ run_result = PyNone
    /\ handler_result = "none"
    /\ obs = NoObs
    /\ pair = NoPair
    /\ lhs = CalendarEvent("n1") /\ rhs = CalendarEvent("n1")
    /\ eq_result = [done |-> FALSE, value |-> FALSE]
    /\ duration = <<>> /\ seconds = PyNone
    /\ request = NoRequest

\* run() waits for the next call of update_events, and the model follows it.
Waiting == pc = "idle" /\ runs < MaxRuns

\* update_events is running.
Updating == pc \in {"loop", "cleanup"}

\* The TTL of the events list has expired.
Expired == now - guild._events_last_pull > _events_list_ttl

\* Where run() is after update_events returned: out, or in its loop.
AfterUpdate == IF once THEN "returned" ELSE "ran"

\* ------------------------------------------------------ cli() and handle()
\* cli(): setup_from_cli, sys.exit(1) without a config, else run(config).
\* An exception setup_from_cli does not catch ends the process with a
\* traceback.
CliStart ==
    /\ pc = "setup"
    /\ mode = "CLI"
    /\ pc' = CASE setup_from_cli(config) = "config" -> "boot"
              [] setup_from_cli(config) = "empty" -> "exit1"
              [] OTHER -> "uncaught"
    /\ UNCHANGED <<envVars, cfgVars, guild, runs, localVars, run_result,
                   handler_result, obs, pair, eqVars, utilVars>>

\* handle(): setup_from_env, the 500 answer without a config, else
\* config["once"] = True and run(config).
HandleStart ==
    /\ pc = "setup"
    /\ mode = "ENV"
    /\ pc' = CASE setup_from_env(config) = "config" -> "boot"
              [] setup_from_env(config) = "empty" -> "status500"
              [] OTHER -> "uncaught"
    /\ once' = (setup_from_env(config) = "config")
    /\ handler_result' = IF setup_from_env(config) = "empty"
                         THEN "Invalid configuration." ELSE handler_result
    /\ UNCHANGED <<envVars, message_config, mode, config, guild, runs, localVars,
                   run_result, obs, pair, eqVars, utilVars>>

\* ------------------------------------------------------------- run(), start
\* run(): DiscordGuild(...), whose __init__ pulls the events; an exception
\* there ends the process.
Construct ==
    /\ pc = "boot"
    /\ \E o \in ListOutcomes :
         LET r == _refresh_events(guild, platform, now, o)
         IN  /\ fails + r.failures <= MaxFail
             /\ fails' = fails + r.failures
             /\ guild' = r.guild
             /\ pc' = IF r.raised THEN "crashed" ELSE "idle"
    /\ UNCHANGED <<platform, next_id, calendar, file, now, ext, cfgVars, runs, localVars, run_result, handler_result,
                   obs, pair, eqVars, utilVars>>

\* ---------------------------------------------------------- update_events
\* The observations at the start of a call.
StartObs(f) ==
    [NoObs EXCEPT !.status = "running", !.fetch = f, !.file_at_start = file,
                  !.stale_at_start =
                      {r \in Range(file.records) :
                          r.event_id \notin {e.id : e \in platform}}]

StartPair ==
    [last_saved |-> FALSE,
     quiet_prev |-> pair.last_saved /\ pair.cur_quiet,
     clean_prev |-> pair.last_saved /\ pair.cur_quiet /\ pair.cur_clean,
     prev_file |-> file,
     cur_quiet |-> TRUE,
     cur_clean |-> TRUE]

\* `if not events` returning at once, without the retraction phase.
after_load_return(evts) == IF evts = <<>> THEN AfterUpdate ELSE "loop"

\* Where update_events goes on after load_history: without candidates
\* (`if not events`) to cleanup_old_messages and save_history, else to the
\* loop over the candidates.
after_load(evts) == IF evts = <<>> THEN "cleanup" ELSE "loop"

\* get_this_week_events ending as f: "request_error" is a
\* requests.exceptions.RequestException, "malformed" the ValueError of
\* icalendar.Calendar.from_ical on a text that is no calendar. Only the first
\* is caught.
UpdateStart ==
    /\ pc = "idle"
    /\ runs < MaxRuns
    /\ runs' = runs + 1
    /\ pair' = StartPair
    /\ \E f \in FetchOutcomes :
         /\ f # "ok" => fails < MaxFail
         /\ fails' = IF f = "ok" THEN fails ELSE fails + 1
         /\ CASE f = "request_error" ->
                /\ obs' = [StartObs(f) EXCEPT !.status = "aborted"]
                /\ pc' = AfterUpdate
                /\ run_result' = IF once THEN PyNone ELSE run_result
                /\ UNCHANGED <<localVars, file>>
           [] f = "malformed" ->
                /\ obs' = [StartObs(f) EXCEPT !.status = "raised"]
                /\ pc' = "raised"
                /\ UNCHANGED <<localVars, run_result, file>>
           [] OTHER ->
                LET ld == load_history(file)
                IN  /\ events' = calendar
                    /\ file' = ld.store
                    /\ history' = ld.history
                    /\ sent_messages' = <<>>
                    /\ added_events' = 0
                    /\ deleted_messages' = <<>>
                    /\ i' = 1
                    /\ j' = 1
                    /\ obs' = [StartObs(f) EXCEPT
                                 !.status = IF ld.raised THEN "raised" ELSE "running",
                                 !.loaded = ld.history,
                                 !.load_warning = ld.warning,
                                 !.load_raised = ld.raised,
                                 !.summary =
                                     [phrase |-> IF calendar = <<>> THEN "no_upcoming"
                                                 ELSE "none",
                                      count |-> 0]]
                    /\ pc' = IF ld.raised THEN "raised" ELSE after_load(calendar)
                    /\ UNCHANGED run_result
    /\ UNCHANGED <<platform, next_id, calendar, now, ext, cfgVars, guild,
                   handler_result, eqVars, utilVars>>

\* `break` in the place of `continue`.
AfterCreateFailure_break(k, n) == n + 1

\* The index the loop over n candidates goes on with after create_event
\* returned no id for the k-th (`continue`).
AfterCreateFailure(k, n) == k + 1

\* One pass of the loop over the candidates, for events[i]: the read of
\* guild.events (GET ending as o1 when the TTL has expired), create_event
\* (POST ending as c, GET ending as o2), send_message (ending as m).
process_event(o1, c, o2, m) ==
    LET event == events[i]
        rd == guild_events(guild, platform, now, o1)
        list == rd.guild._events
        base == [raised |-> FALSE, failures |-> rd.failures, outcome |-> "skip",
                 guild |-> rd.guild,
                 remote |-> platform, ids |-> 0, event_id |-> EmptyId,
                 next |-> i + 1, added |-> 0, sent |-> <<>>,
                 creates |-> 0, invites |-> 0, messages |-> 0, announce |-> "none",
                 event |-> event, list |-> list, before |-> EventsOf(platform)]
    IN  IF rd.raised
        THEN [base EXCEPT !.raised = TRUE, !.outcome = "raised"]
        ELSE IF EventIn(event, list)
        THEN base
        ELSE LET cr == create_event(rd.guild, platform, next_id, now, event, c, o2)
                 made == [base EXCEPT !.failures = @ + cr.failures,
                                      !.guild = cr.guild, !.remote = cr.remote,
                                      !.ids = IF c = "ok" THEN 1 ELSE 0,
                                      !.event_id = cr.event_id, !.creates = 1]
             IN  IF cr.raised
                 THEN [made EXCEPT !.raised = TRUE, !.outcome = "raised"]
                 ELSE IF cr.event_id = EmptyId
                 THEN [made EXCEPT !.outcome = "noid",
                                   !.next = AfterCreateFailure(i, Len(events))]
                 ELSE IF ~message_config.set
                 THEN [made EXCEPT !.outcome = "created", !.added = 1]
                 ELSE LET sm == send_message(message_config, cr.event_id, m)
                          tried == [made EXCEPT !.failures = @ + sm.failures,
                                                !.added = 1, !.invites = sm.invites,
                                                !.messages = sm.messages]
                      IN  IF sm.raised
                          THEN [tried EXCEPT !.raised = TRUE, !.outcome = "raised",
                                             !.announce = "failed"]
                          ELSE [tried EXCEPT
                                  !.outcome = "announced", !.announce = "posted",
                                  !.sent = <<Record(cr.event_id, sm.message_id,
                                                    sm.channel_id)>>]

ProcessDone(r) ==
    /\ fails + r.failures <= MaxFail
    /\ fails' = fails + r.failures
    /\ guild' = r.guild
    /\ platform' = r.remote
    /\ next_id' = next_id + r.ids
    /\ i' = r.next
    /\ added_events' = added_events + r.added
    /\ sent_messages' = sent_messages \o r.sent
    /\ pc' = IF r.raised THEN "raised" ELSE "loop"
    /\ obs' = [obs EXCEPT
                 !.status = IF r.raised THEN "raised" ELSE "running",
                 !.trace = Append(@, [idx |-> i, event |-> r.event,
                                      list |-> r.list, before |-> r.before,
                                      outcome |-> r.outcome,
                                      called |-> r.creates = 1,
                                      announce |-> r.announce,
                                      event_id |-> r.event_id]),
                 !.creates = @ + r.creates,
                 !.invites = @ + r.invites,
                 !.messages = @ + r.messages]
    /\ pair' = [pair EXCEPT
                  !.cur_clean = @ /\ Faithful(r.list, platform)
                                  /\ r.outcome \notin {"noid", "raised"}]

\* A call that is not made has no outcome to choose.
ProcessEvent ==
    /\ pc = "loop"
    /\ i <= Len(events)
    /\ \E o1 \in ListOutcomes :
         /\ ~Expired => o1 = "ok"
         /\ LET r0 == process_event(o1, "ok", "ok", "ok")
            IN  IF r0.creates = 0
                THEN ProcessDone(r0)
                ELSE \E c \in CreateOutcomes, o2 \in ListOutcomes, m \in SendOutcomes :
                       /\ c = "raise" => o2 = "ok"
                       /\ (c # "ok" \/ o2 = "raise" \/ ~message_config.set) => m = "ok"
                       /\ m = "raise_invite" => message_config.link
                       /\ ProcessDone(process_event(o1, c, o2, m))
    /\ UNCHANGED <<calendar, file, now, ext, cfgVars, runs, events, history,
                   deleted_messages, j, run_result, handler_result, eqVars, utilVars>>

\* The summary of the run, and `history += sent_messages`.
summary_of(added) ==
    IF added = 0 THEN [phrase |-> "already_exist", count |-> 0]
    ELSE [phrase |-> "added", count |-> added]

Summarize ==
    /\ pc = "loop"
    /\ i > Len(events)
    /\ history' = history \o sent_messages
    /\ obs' = [obs EXCEPT !.summary = summary_of(added_events)]
    /\ pc' = "cleanup"
    /\ j' = 1
    /\ deleted_messages' = <<>>
    /\ UNCHANGED <<envVars, cfgVars, guild, runs, events, i, sent_messages,
                   added_events, run_result, handler_result, pair, eqVars, utilVars>>

\* --------------------------------------------------- cleanup_old_messages
\* The loop body without the append.
after_delete_none(deleted, message, d) == deleted

\* What `deleted_messages` is after the loop body ran for `message` and
\* delete_message returned with status d.
after_delete(deleted, message, d) == Append(deleted, message)

\* One pass of the loop of cleanup_old_messages, for history[j]: the read of
\* guild.events within event_id_exists (GET ending as o1 when the TTL has
\* expired), delete_message (DELETE ending as d).
cleanup_message(o1, d) ==
    LET message == history[j]
        rd == guild_events(guild, platform, now, o1)
        list == rd.guild._events
        base == [raised |-> FALSE, failures |-> rd.failures, guild |-> rd.guild,
                 deleted |-> deleted_messages,
                 deletes |-> 0, message |-> message, list |-> list, status |-> "kept"]
    IN  IF rd.raised
        THEN [base EXCEPT !.raised = TRUE, !.status = "raised"]
        ELSE IF event_id_exists(list, message.event_id)
        THEN base
        ELSE IF d = "raise"
        THEN [base EXCEPT !.raised = TRUE, !.failures = @ + 1, !.deletes = 1,
                          !.status = d]
        ELSE [base EXCEPT !.failures = @ + (IF d = "500" THEN 1 ELSE 0),
                          !.deletes = 1, !.status = d,
                          !.deleted = after_delete(deleted_messages, message, d)]

CleanupDone(r) ==
    /\ fails + r.failures <= MaxFail
    /\ fails' = fails + r.failures
    /\ guild' = r.guild
    /\ deleted_messages' = r.deleted
    /\ j' = j + 1
    /\ pc' = IF r.raised THEN "raised" ELSE "cleanup"
    /\ obs' = [obs EXCEPT
                 !.status = IF r.raised THEN "raised" ELSE "running",
                 !.ctrace = Append(@, [message |-> r.message, list |-> r.list,
                                       status |-> r.status]),
                 !.deletes = @ + r.deletes]
    /\ pair' = [pair EXCEPT
                  !.cur_clean = @ /\ Faithful(r.list, platform) /\ ~r.raised]

CleanupMessage ==
    /\ pc = "cleanup"
    /\ j <= Len(history)
    /\ \E o1 \in ListOutcomes :
         /\ ~Expired => o1 = "ok"
         /\ LET r0 == cleanup_message(o1, "204")
            IN  IF r0.deletes = 0
                THEN CleanupDone(r0)
                ELSE \E d \in DeleteOutcomes : CleanupDone(cleanup_message(o1, d))
    /\ UNCHANGED <<platform, next_id, calendar, file, now, ext, cfgVars, runs,
                   events, i, history, sent_messages, added_events, run_result,
                   handler_result, eqVars, utilVars>>

\* cleanup_old_messages returning the history it was given.
kept_messages_all(list, deleted) == list

\* The list cleanup_old_messages returns.
kept_messages(list, deleted) ==
    SelectSeq(list, LAMBDA message : message \notin Range(deleted))

\* The end of cleanup_old_messages and save_history; update_events returns,
\* and so does run() when config["once"] is set.
Finish ==
    /\ pc = "cleanup"
    /\ j > Len(history)
    /\ history' = kept_messages(history, deleted_messages)
    /\ file' = save_history(history')
    /\ obs' = [obs EXCEPT !.status = "saved", !.saves = @ + 1]
    /\ pc' = AfterUpdate
    /\ run_result' = IF once THEN PyNone ELSE run_result
    /\ UNCHANGED <<platform, next_id, calendar, now, ext, fails, cfgVars, guild, runs,
                   events, i, sent_messages, added_events, deleted_messages, j,
                   handler_result, pair, eqVars, utilVars>>

\* run(): update_events has returned and its locals are gone; the loop waits
\* for the next call (schedule.run_pending, time.sleep).
Wait ==
    /\ pc = "ran"
    /\ pc' = "idle"
    /\ events' = <<>> /\ i' = 1 /\ history' = <<>> /\ sent_messages' = <<>>
    /\ added_events' = 0 /\ deleted_messages' = <<>> /\ j' = 1
    /\ obs' = NoObs
    /\ pair' = [pair EXCEPT !.last_saved = obs.status = "saved"]
    /\ UNCHANGED <<envVars, cfgVars, guild, runs, run_result, handler_result, eqVars, utilVars>>

\* ---------------------------------------------------------------- handle()
\* The message handle() builds from what run() returned: None is not 0, and
\* `None > 1` is a TypeError.
handle_message(added) ==
    IF added.is_none THEN "TypeError"
    ELSE IF added.value = 0 THEN "No new events found."
    ELSE "new events added"

Handle ==
    /\ pc = "returned"
    /\ mode = "ENV"
    /\ handler_result' = handle_message(run_result)
    /\ pc' = "handled"
    /\ UNCHANGED <<envVars, cfgVars, guild, runs, localVars, run_result, obs, pair,
                   eqVars, utilVars>>

\* signal_handler: SIGINT or SIGTERM once run() has installed it, that is
\* after the first pass; schedule.clear() and sys.exit(). The process and
\* what it held in memory are gone.
Signal ==
    /\ ~once
    /\ pc = "idle" \/ (Updating /\ runs > 1)
    /\ pc' = "exited"
    /\ guild' = [_events |-> <<>>, _events_last_pull |-> 0]
    /\ events' = <<>> /\ i' = 1 /\ history' = <<>> /\ sent_messages' = <<>>
    /\ added_events' = 0 /\ deleted_messages' = <<>> /\ j' = 1
    /\ obs' = NoObs
    /\ pair' = NoPair
    /\ UNCHANGED <<envVars, cfgVars, runs, run_result, handler_result, eqVars,
                   utilVars>>

\* ---------------------------------------------------------- the environment
Tick ==
    /\ Waiting \/ Updating
    /\ now < MaxTicks * TickSeconds
    /\ now' = now + TickSeconds
    /\ UNCHANGED <<platform, next_id, calendar, file, ext, fails, cfgVars, guild, pc,
                   runs,
                   localVars, run_result, handler_result, obs, pair, eqVars, utilVars>>

\* Somebody else schedules an event on the platform, between two runs.
PlatformAdd ==
    /\ Waiting
    /\ ext < MaxExt
    /\ \E c \in Candidates :
         platform' = platform \cup {ForeignEvent(IdOf(next_id), c)}
    /\ next_id' = next_id + 1
    /\ ext' = ext + 1
    /\ pair' = Disturbed(pair)
    /\ UNCHANGED <<calendar, file, now, fails, cfgVars, guild, pc, runs, localVars,
                   run_result, handler_result, obs, eqVars, utilVars>>

\* An event is deleted on the platform, or ends, between two runs.
PlatformRemove ==
    /\ Waiting
    /\ ext < MaxExt
    /\ \E e \in platform : platform' = platform \ {e}
    /\ ext' = ext + 1
    /\ pair' = Disturbed(pair)
    /\ UNCHANGED <<next_id, calendar, file, now, fails, cfgVars, guild, pc, runs,
                   localVars,
                   run_result, handler_result, obs, eqVars, utilVars>>

\* The calendar's events of this week change between two runs.
CalendarChange ==
    /\ Waiting
    /\ ext < MaxExt
    /\ \E f \in Feeds \ {calendar} : calendar' = f
    /\ ext' = ext + 1
    /\ pair' = Disturbed(pair)
    /\ UNCHANGED <<platform, next_id, file, now, fails, cfgVars, guild, pc, runs,
                   localVars,
                   run_result, handler_result, obs, eqVars, utilVars>>

Next ==
    \/ CliStart
    \/ HandleStart
    \/ Construct
    \/ UpdateStart
    \/ ProcessEvent
    \/ Summarize
    \/ CleanupMessage
    \/ Finish
    \/ Wait
    \/ Handle
    \/ Signal
    \/ Tick
    \/ PlatformAdd
    \/ PlatformRemove
    \/ CalendarChange

Spec == Init /\ [][Next]_vars

\* The steps of the process itself: as long as it is alive it takes its next
\* step (one thread; schedule.run_pending is called every second). The clock
\* and the others who change the platform or the calendar owe nothing.
Program ==
    \/ CliStart
    \/ HandleStart
    \/ Construct
    \/ UpdateStart
    \/ ProcessEvent
    \/ Summarize
    \/ CleanupMessage
    \/ Finish
    \/ Wait
    \/ Handle

SpecFair == Init /\ [][Next]_vars /\ WF_vars(Program)

\* ------------------------------------------- Event.__eq__ on its own values
EventValues ==
    {Event(id, name, description, start, end, metadata, privacy) :
        id \in {None, IdOf(1)}, name \in {"n1", "n2"}, description \in {"d", ""},
        start \in {Time(1, "offset"), Time(1, "Z"), Time(2, "offset")},
        end \in {Time(3, "offset"), Time(3, "Z")},
        metadata \in {Location1, Location2},
        privacy \in {DEFAULT_PRIVACY_LEVEL, 1}}

InitEq ==
    /\ platform = {} /\ next_id = 2 /\ calendar = <<>> /\ file = File(TRUE, <<>>)
    /\ now = 0 /\ ext = 0 /\ fails = 0
    /\ message_config = [set |-> FALSE, link |-> FALSE] /\ once = FALSE
    /\ mode = "CLI" /\ config = Config("mapping", RootOptions, "mapping", DiscordOptions)
    /\ duration = <<>> /\ seconds = PyNone
    /\ request = NoRequest
    /\ guild = [_events |-> <<>>, _events_last_pull |-> 0]
    /\ pc = "eq"
    /\ runs = 0
    /\ platform_channels = {AnnouncementChannel}
    /\ lookup = NoLookup
    /\ instances = NoInstances
    /\ events = <<>> /\ i = 1 /\ history = <<>> /\ sent_messages = <<>>
    /\ added_events = 0 /\ deleted_messages = <<>> /\ j = 1
    /\ run_result = PyNone
    /\ handler_result = "none"
    /\ obs = NoObs
    /\ pair = NoPair
    /\ lhs \in EventValues
    /\ rhs \in EventValues
    /\ eq_result = [done |-> FALSE, value |-> FALSE]

\* lhs == rhs
Compare ==
    /\ pc = "eq"
    /\ ~eq_result.done
    /\ eq_result' = [done |-> TRUE, value |-> Event_eq(lhs, rhs)]
    /\ UNCHANGED <<envVars, cfgVars, guild, pc, runs, localVars, run_result,
                   handler_result, obs, pair, lhs, rhs, utilVars>>

NextEq == Compare

SpecEq == InitEq /\ [][NextEq]_vars

\* -------------------------------------------------- duration_to_seconds
\* A string is the sequence of its characters.
Digits == {"0", "1", "2", "3", "4", "5", "6", "7", "8", "9"}
Units == {"d", "h", "m", "s"}

\* units[unit]
units(unit) ==
    CASE unit = "d" -> 86400
      [] unit = "h" -> 3600
      [] unit = "m" -> 60
      [] unit = "s" -> 1

DigitValue(c) ==
    CASE c = "0" -> 0 [] c = "1" -> 1 [] c = "2" -> 2 [] c = "3" -> 3
      [] c = "4" -> 4 [] c = "5" -> 5 [] c = "6" -> 6 [] c = "7" -> 7
      [] c = "8" -> 8 [] c = "9" -> 9

\* int(digits) for a non-empty string of digits.
RECURSIVE int(_)
int(digits) ==
    IF Len(digits) = 1 THEN DigitValue(digits[1])
    ELSE 10 * int(SubSeq(digits, 1, Len(digits) - 1)) + DigitValue(digits[Len(digits)])

\* The first index from p on that holds no digit (Len(s) + 1 if none).
RECURSIVE DigitsEnd(_, _)
DigitsEnd(s, p) ==
    IF p > Len(s) \/ s[p] \notin Digits THEN p ELSE DigitsEnd(s, p + 1)

\* The first match only, as re.search would give it.
RECURSIVE findall_first_only(_, _)
findall_first_only(s, p) ==
    IF p > Len(s) THEN <<>>
    ELSE LET q == DigitsEnd(s, p)
         IN  IF q > p /\ q <= Len(s) /\ s[q] \in Units
             THEN <<<<SubSeq(s, p, q - 1), s[q]>>>>
             ELSE findall_first_only(s, p + 1)

\* regex.findall(duration) for (\d+)([dhms]), from position p on: the
\* matches from left to right, without overlap; \d+ is greedy, and giving
\* digits back cannot help since a digit is no unit.
RECURSIVE findall(_, _)
findall(s, p) ==
    IF p > Len(s) THEN <<>>
    ELSE LET q == DigitsEnd(s, p)
         IN  IF q > p /\ q <= Len(s) /\ s[q] \in Units
             THEN <<<<SubSeq(s, p, q - 1), s[q]>>>> \o findall(s, q + 1)
             ELSE findall(s, p + 1)

\* The loop over the matches.
RECURSIVE sum_matches(_)
sum_matches(matches) ==
    IF matches = <<>> THEN 0
    ELSE int(matches[1][1]) * units(matches[1][2]) + sum_matches(Tail(matches))

duration_to_seconds(s) == sum_matches(findall(s, 1))

\* The arguments the model tries: every string of at most MaxDuration
\* characters over DurationChars, and the examples.
DurationChars == {"0", "1", "9", "d", "h", "m", "s", "x"}
DurationExamples ==
    {<<"2", "4", "h">>, <<"1", "d">>, <<"1", "d", "6", "h", "3", "0", "m">>,
     <<>>, <<"a", "b", "c">>}
DurationInputs == SeqsUpTo(DurationChars, MaxDuration) \cup DurationExamples

InitDur ==
    /\ platform = {} /\ next_id = 2 /\ calendar = <<>> /\ file = File(TRUE, <<>>)
    /\ now = 0 /\ ext = 0 /\ fails = 0
    /\ message_config = [set |-> FALSE, link |-> FALSE] /\ once = FALSE
    /\ mode = "CLI" /\ config = Config("mapping", RootOptions, "mapping", DiscordOptions)
    /\ guild = [_events |-> <<>>, _events_last_pull |-> 0]
    /\ pc = "duration"
    /\ runs = 0
    /\ platform_channels = {AnnouncementChannel}
    /\ lookup = NoLookup
    /\ instances = NoInstances
    /\ events = <<>> /\ i = 1 /\ history = <<>> /\ sent_messages = <<>>
    /\ added_events = 0 /\ deleted_messages = <<>> /\ j = 1
    /\ run_result = PyNone
    /\ handler_result = "none"
    /\ obs = NoObs
    /\ pair = NoPair
    /\ lhs = CalendarEvent("n1") /\ rhs = CalendarEvent("n1")
    /\ eq_result = [done |-> FALSE, value |-> FALSE]
    /\ duration \in DurationInputs
    /\ seconds = PyNone
    /\ request = NoRequest

\* seconds = duration_to_seconds(duration)
Parse ==
    /\ pc = "duration"
    /\ seconds = PyNone
    /\ seconds' = PyInt(duration_to_seconds(duration))
    /\ UNCHANGED <<envVars, cfgVars, guild, pc, runs, localVars, run_result,
                   handler_result, obs, pair, eqVars, duration, request, cacheVars,
                   instances>>

NextDur == Parse

SpecDur == InitDur /\ [][NextDur]_vars

\* ----------------------------------------------------------- _api_request
\* What requests.request can give: an answer with a status, with or without
\* the X-RateLimit-Reset-After header, the body JSON or not; or an exception
\* (timeout, connection error).
ApiStatuses == {"200", "204", "404", "429", "500"}
Responses ==
    {[raised |-> FALSE, status |-> st, reset_after |-> h, json |-> b] :
        st \in ApiStatuses, h \in BOOLEAN, b \in BOOLEAN}
    \cup {[raised |-> TRUE, status |-> "none", reset_after |-> FALSE, json |-> FALSE]}

\* A call _api_request(url, method=..., expected_status=..., error_ok=...)
\* that has just been entered.
Request(expected_status, error_ok) ==
    [pc |-> "calling", expected_status |-> expected_status, error_ok |-> error_ok,
     depth |-> 0, status |-> "none", body |-> "none", logged |-> FALSE]

\* One pass through the body of _api_request for the call r, requests.request
\* giving resp. On a 429 with the header it sleeps and calls itself with the
\* same arguments: one more frame on the stack, and RecursionError once the
\* interpreter allows no more. Otherwise it logs an unexpected status unless
\* error_ok, and returns the status with the decoded body, {} if it is no
\* JSON.
_api_request(r, resp) ==
    IF resp.raised THEN [r EXCEPT !.pc = "raised"]
    ELSE IF resp.status = "429" /\ resp.reset_after
    THEN IF r.depth + 1 > RecursionLimit
         THEN [r EXCEPT !.pc = "RecursionError"]
         ELSE [r EXCEPT !.depth = @ + 1]
    ELSE [r EXCEPT !.pc = "returned",
                   !.status = resp.status,
                   !.body = IF resp.json THEN "json" ELSE "{}",
                   !.logged = ~r.error_ok /\ resp.status # r.expected_status]

InitApi ==
    /\ platform = {} /\ next_id = 2 /\ calendar = <<>> /\ file = File(TRUE, <<>>)
    /\ now = 0 /\ ext = 0 /\ fails = 0
    /\ message_config = [set |-> FALSE, link |-> FALSE] /\ once = FALSE
    /\ mode = "CLI" /\ config = Config("mapping", RootOptions, "mapping", DiscordOptions)
    /\ guild = [_events |-> <<>>, _events_last_pull |-> 0]
    /\ pc = "api"
    /\ runs = 0
    /\ platform_channels = {AnnouncementChannel}
    /\ lookup = NoLookup
    /\ instances = NoInstances
    /\ events = <<>> /\ i = 1 /\ history = <<>> /\ sent_messages = <<>>
    /\ added_events = 0 /\ deleted_messages = <<>> /\ j = 1
    /\ run_result = PyNone
    /\ handler_result = "none"
    /\ obs = NoObs
    /\ pair = NoPair
    /\ lhs = CalendarEvent("n1") /\ rhs = CalendarEvent("n1")
    /\ eq_result = [done |-> FALSE, value |-> FALSE]
    /\ duration = <<>> /\ seconds = PyNone
    /\ request \in {Request(e, ok) : e \in {"200", "204"}, ok \in BOOLEAN}

\* requests.request answers and _api_request deals with the answer.
ApiAnswer ==
    /\ pc = "api"
    /\ request.pc = "calling"
    /\ \E resp \in Responses : request' = _api_request(request, resp)
    /\ UNCHANGED <<envVars, cfgVars, guild, pc, runs, localVars, run_result,
                   handler_result, obs, pair, eqVars, duration, seconds, cacheVars,
                   instances>>

NextApi == ApiAnswer

SpecApi == InitApi /\ [][NextApi]_vars

\* --------------------------------- the guild's cached lists on their own
\* A Channel of the facade, and the one _refresh_channels builds from an
\* element of the API's answer.
Channel(name, channel_id) == [name |-> name, channel_id |-> channel_id]
ChannelOfApi(c) == Channel(c.name, c.id)

ChannelsOf(remote) ==
    LET l == ListOf(remote) IN [k \in 1..Len(l) |-> ChannelOfApi(l[k])]

\* DiscordGuild._refresh_channels at time t, the GET ending as o.
_refresh_channels(g, remote, t, o) ==
    CASE o = "ok" ->
            [raised |-> FALSE, failures |-> 0, pulls |-> 1,
             guild |-> [g EXCEPT !._channels = ChannelsOf(remote),
                                 !._channels_last_pull = t]]
      [] o = "empty" ->
            [raised |-> FALSE, failures |-> 1, pulls |-> 1,
             guild |-> [g EXCEPT !._channels = <<>>, !._channels_last_pull = t]]
      [] OTHER -> [raised |-> TRUE, failures |-> 1, pulls |-> 1, guild |-> g]

\* The property DiscordGuild.channels.
guild_channels(g, remote, t, o) ==
    IF t - g._channels_last_pull > _channels_list_ttl
    THEN _refresh_channels(g, remote, t, o)
    ELSE [raised |-> FALSE, failures |-> 0, pulls |-> 0, guild |-> g]

\* DiscordGuild.__init__: _refresh_events, then _refresh_channels.
DiscordGuild(g, remote, remote_channels, t, o1, o2) ==
    LET r1 == _refresh_events(g, remote, t, o1)
        r2 == _refresh_channels(r1.guild, remote_channels, t, o2)
    IN  IF r1.raised
        THEN [raised |-> TRUE, failures |-> r1.failures, event_pulls |-> r1.pulls,
              channel_pulls |-> 0, guild |-> g]
        ELSE [raised |-> r2.raised, failures |-> r1.failures + r2.failures,
              event_pulls |-> r1.pulls, channel_pulls |-> r2.pulls,
              guild |-> r2.guild]

\* The other channels the guild can have.
OtherChannel == ApiChannel("general", "c2")

\* The clock between two uses of the lists: just under the TTL, the TTL, just
\* over it.
ClockSteps == {_events_list_ttl - 1, _events_list_ttl, _events_list_ttl + 1}

\* A use of the lists, as `lookup` records it: the time, the seconds since
\* the last pull of the list it reads, the calls of _refresh_events and of
\* _refresh_channels it made, the list cached before, the list it got and
\* the list the platform had at that time.
Lookup(op, at, elapsed, event_pulls, channel_pulls, raised, cached, returned, remote) ==
    [op |-> op, at |-> at, elapsed |-> elapsed, event_pulls |-> event_pulls,
     channel_pulls |-> channel_pulls, raised |-> raised, cached |-> cached,
     returned |-> returned, remote |-> remote]

InitTtl ==
    /\ platform \in {{}, {InitialEvent}}
    /\ next_id = 2 /\ calendar = <<>> /\ file = File(TRUE, <<>>)
    /\ now = 0 /\ ext = 0 /\ fails = 0
    /\ message_config = [set |-> FALSE, link |-> FALSE] /\ once = FALSE
    /\ mode = "CLI" /\ config = Config("mapping", RootOptions, "mapping", DiscordOptions)
    /\ guild = [_events |-> <<>>, _events_last_pull |-> 0,
                _channels |-> <<>>, _channels_last_pull |-> 0]
    /\ pc = "ttl_boot"
    /\ runs = 0
    /\ platform_channels \in {{AnnouncementChannel}, {AnnouncementChannel, OtherChannel}}
    /\ lookup = NoLookup
    /\ instances = NoInstances
    /\ events = <<>> /\ i = 1 /\ history = <<>> /\ sent_messages = <<>>
    /\ added_events = 0 /\ deleted_messages = <<>> /\ j = 1
    /\ run_result = PyNone
    /\ handler_result = "none"
    /\ obs = NoObs
    /\ pair = NoPair
    /\ lhs = CalendarEvent("n1") /\ rhs = CalendarEvent("n1")
    /\ eq_result = [done |-> FALSE, value |-> FALSE]
    /\ duration = <<>> /\ seconds = PyNone
    /\ request = NoRequest

\* What every action of this part leaves alone.
ttlFrame ==
    <<calendar, file, ext, cfgVars, runs, localVars, run_result, handler_result,
      obs, pair, eqVars, duration, seconds, request, instances>>

\* guild = DiscordGuild(...)
TtlConstruct ==
    /\ pc = "ttl_boot"
    /\ \E o1, o2 \in ListOutcomes :
         LET r == DiscordGuild(guild, platform, platform_channels, now, o1, o2)
         IN  /\ o1 = "raise" => o2 = "ok"
             /\ fails + r.failures <= MaxFail
             /\ fails' = fails + r.failures
             /\ guild' = r.guild
             /\ pc' = IF r.raised THEN "crashed" ELSE "ttl"
             /\ lookup' = Lookup("construct", now, 0, r.event_pulls, r.channel_pulls,
                                 r.raised, <<>>, <<>>, <<>>)
    /\ UNCHANGED <<platform, next_id, now, platform_channels, ttlFrame>>

\* A read of guild.events (`event in guild.events`, event_id_exists).
TtlReadEvents ==
    /\ pc = "ttl"
    /\ \E o \in ListOutcomes :
         LET r == guild_events(guild, platform, now, o)
         IN  /\ r.pulls = 0 => o = "ok"
             /\ fails + r.failures <= MaxFail
             /\ fails' = fails + r.failures
             /\ guild' = r.guild
             /\ pc' = IF r.raised THEN "crashed" ELSE "ttl"
             /\ lookup' = Lookup("events", now, now - guild._events_last_pull,
                                 r.pulls, 0, r.raised, guild._events,
                                 IF r.raised THEN <<>> ELSE r.guild._events,
                                 EventsOf(platform))
    /\ UNCHANGED <<platform, next_id, now, platform_channels, ttlFrame>>

\* A read of guild.channels (get_channel_id).
TtlReadChannels ==
    /\ pc = "ttl"
    /\ \E o \in ListOutcomes :
         LET r == guild_channels(guild, platform_channels, now, o)
         IN  /\ r.pulls = 0 => o = "ok"
             /\ fails + r.failures <= MaxFail
             /\ fails' = fails + r.failures
             /\ guild' = r.guild
             /\ pc' = IF r.raised THEN "crashed" ELSE "ttl"
             /\ lookup' = Lookup("channels", now, now - guild._channels_last_pull,
                                 0, r.pulls, r.raised, guild._channels,
                                 IF r.raised THEN <<>> ELSE r.guild._channels,
                                 ChannelsOf(platform_channels))
    /\ UNCHANGED <<platform, next_id, now, platform_channels, ttlFrame>>

\* guild.create_event(event)
TtlCreateEvent ==
    /\ pc = "ttl"
    /\ next_id <= MaxFeed
    /\ \E event \in Candidates, c \in CreateOutcomes, o \in ListOutcomes :
         LET r == create_event(guild, platform, next_id, now, event, c, o)
         IN  /\ c = "raise" => o = "ok"
             /\ fails + r.failures <= MaxFail
             /\ fails' = fails + r.failures
             /\ guild' = r.guild
             /\ platform' = r.remote
             /\ next_id' = next_id + 1
             /\ pc' = IF r.raised THEN "crashed" ELSE "ttl"
             /\ lookup' = Lookup("create_event", now, now - guild._events_last_pull,
                                 r.pulls, 0, r.raised, guild._events,
                                 IF r.raised THEN <<>> ELSE r.guild._events,
                                 EventsOf(platform))
    /\ UNCHANGED <<now, platform_channels, ttlFrame>>

\* Time passes between two uses.
TtlAdvance ==
    /\ pc = "ttl"
    /\ \E d \in ClockSteps :
         /\ now + d <= (MaxTicks + 1) * TickSeconds
         /\ now' = now + d
    /\ UNCHANGED <<platform, next_id, fails, guild, pc, platform_channels, lookup,
                   ttlFrame>>

\* Somebody else deletes an event, or adds or removes a channel.
TtlPlatformChange ==
    /\ pc = "ttl"
    /\ ext < MaxExt
    /\ \/ /\ \E e \in platform : platform' = platform \ {e}
          /\ UNCHANGED platform_channels
       \/ /\ platform_channels' =
                IF OtherChannel \in platform_channels
                THEN platform_channels \ {OtherChannel}
                ELSE platform_channels \cup {OtherChannel}
          /\ UNCHANGED platform
    /\ ext' = ext + 1
    /\ UNCHANGED <<next_id, calendar, file, now, fails, cfgVars, guild, pc, runs,
                   localVars, run_result, handler_result, obs, pair, eqVars,
                   duration, seconds, request, lookup, instances>>

NextTtl ==
    \/ TtlConstruct
    \/ TtlReadEvents
    \/ TtlReadChannels
    \/ TtlCreateEvent
    \/ TtlAdvance
    \/ TtlPlatformChange

SpecTtl == InitTtl /\ [][NextTtl]_vars

\* ------------------------- two processes, one history file, one platform
\* What a process holds for itself: its DiscordGuild, where it is in run()
\* and update_events, and their locals.
Context ==
    [guild |-> guild, pc |-> pc, runs |-> runs, events |-> events, i |-> i,
     history |-> history, sent_messages |-> sent_messages,
     added_events |-> added_events, deleted_messages |-> deleted_messages,
     j |-> j, run_result |-> run_result, obs |-> obs, pair |-> pair]

\* run() is over, by return or by exception.
Finished(at) == at \in {"returned", "raised", "crashed"}

\* Two processes started with the same configuration and config["once"],
\* each about to construct its own DiscordGuild. The variables of run() and
\* update_events are those of the process that runs; `instances` holds the
\* other's.
InitTwo ==
    /\ platform \in {{}, {InitialEvent}}
    /\ next_id = 2
    /\ calendar \in Feeds
    /\ file \in {File(TRUE, <<>>), File(TRUE, <<InitialRecord>>)}
    /\ now = 0 /\ ext = 0 /\ fails = 0
    /\ message_config \in MessageConfigs
    /\ mode = "CLI" /\ config = Config("mapping", RootOptions, "mapping", DiscordOptions)
    /\ once = TRUE
    /\ guild = [_events |-> <<>>, _events_last_pull |-> 0]
    /\ pc = "boot"
    /\ runs = 0
    /\ platform_channels = {AnnouncementChannel}
    /\ lookup = NoLookup
    /\ events = <<>> /\ i = 1 /\ history = <<>> /\ sent_messages = <<>>
    /\ added_events = 0 /\ deleted_messages = <<>> /\ j = 1
    /\ run_result = PyNone
    /\ handler_result = "none"
    /\ obs = NoObs
    /\ pair = NoPair
    /\ lhs = CalendarEvent("n1") /\ rhs = CalendarEvent("n1")
    /\ eq_result = [done |-> FALSE, value |-> FALSE]
    /\ duration = <<>> /\ seconds = PyNone
    /\ request = NoRequest
    /\ instances = [running |-> 1, waiting |-> Context]

\* The operating system lets the other process go on: nothing orders the
\* steps of the two, and neither holds a lock on the history file.
Switch ==
    /\ ~Finished(instances.waiting.pc)
    /\ instances' = [running |-> 3 - instances.running, waiting |-> Context]
    /\ guild' = instances.waiting.guild
    /\ pc' = instances.waiting.pc
    /\ runs' = instances.waiting.runs
    /\ events' = instances.waiting.events
    /\ i' = instances.waiting.i
    /\ history' = instances.waiting.history
    /\ sent_messages' = instances.waiting.sent_messages
    /\ added_events' = instances.waiting.added_events
    /\ deleted_messages' = instances.waiting.deleted_messages
    /\ j' = instances.waiting.j
    /\ run_result' = instances.waiting.run_result
    /\ obs' = instances.waiting.obs
    /\ pair' = instances.waiting.pair
    /\ UNCHANGED <<envVars, cfgVars, handler_result, eqVars, duration, seconds,
                   request, cacheVars>>

NextTwo ==
    \/ Construct
    \/ UpdateStart
    \/ ProcessEvent
    \/ Summarize
    \/ CleanupMessage
    \/ Finish
    \/ Switch

SpecTwo == InitTwo /\ [][NextTwo]_vars

\* ------------------------------------------------------------------ claims
\* The equality the specification defines: name, start time, end time,
\* metadata and privacy level, the times as they are written.
SameEvent(a, b) ==
    /\ a.name = b.name
    /\ a.start_time = b.start_time
    /\ a.end_time = b.end_time
    /\ a.metadata = b.metadata
    /\ a.privacy_level = b.privacy_level

\* The same, with the times compared as instants.
SameEventInstants(a, b) ==
    /\ a.name = b.name
    /\ a.start_time.inst = b.start_time.inst
    /\ a.end_time.inst = b.end_time.inst
    /\ a.metadata = b.metadata
    /\ a.privacy_level = b.privacy_level

IdsOf(list) == {list[k].event_id : k \in 1..Len(list)}

\* The candidates of the current run the loop has dealt with.
Passes == 1..Len(obs.trace)
\* The records the retraction phase of the current run has dealt with.
Checks == 1..Len(obs.ctrace)

\* delete_message was called for the record.
Attempted(record) ==
    \E k \in Checks :
        obs.ctrace[k].message = record /\ obs.ctrace[k].status \in DeleteOutcomes

\* The current call of update_events made no remote call that changes
\* anything.
NoCalls == obs.creates = 0 /\ obs.messages = 0 /\ obs.invites = 0 /\ obs.deletes = 0

\* C1 as stated, where no call has failed: create_event is never called for
\* a candidate when an equal event is on the platform at that moment.
C1_NoDuplicateOnPlatform ==
    fails = 0 =>
        \A k \in Passes :
            (\E r \in Range(obs.trace[k].before) : SameEvent(r, obs.trace[k].event))
                => ~obs.trace[k].called

\* C1 amended: create_event is never called for a candidate when an equal
\* event is in the list guild.events returns for it (the TTL cache).
C1_NoDuplicateOfListed ==
    \A k \in Passes :
        (\E r \in Range(obs.trace[k].list) : SameEvent(r, obs.trace[k].event))
            => ~obs.trace[k].called

\* A candidate was skipped because the list holds an equal event, which has
\* an id and another description.
C1_Witness ==
    \E k \in Passes :
        /\ obs.trace[k].outcome = "skip"
        /\ \E r \in Range(obs.trace[k].list) :
             /\ SameEvent(r, obs.trace[k].event)
             /\ r.event_id # obs.trace[k].event.event_id

\* What C2 says of the second of two runs.
SecondRunIdle ==
    /\ obs.creates = 0
    /\ obs.messages = 0
    /\ obs.invites = 0
    /\ sent_messages = <<>>
    /\ obs.status = "saved" => file = pair.prev_file

\* C2 as stated: the run before reached its end, nobody else changed the
\* calendar or the platform since it started; then this run creates nothing,
\* announces nothing, records nothing and saves the history it found.
C2_Idempotence ==
    (obs.status # "none" /\ pair.quiet_prev /\ pair.cur_quiet) => SecondRunIdle

\* C2 amended: the same, when in addition every create_event of the run
\* before returned an id and every list guild.events returned in the two runs
\* was the platform's list of events.
C2_IdempotenceFaithful ==
    (obs.status # "none" /\ pair.clean_prev /\ pair.cur_quiet /\ pair.cur_clean)
        => SecondRunIdle

\* A second run ended that way after a first one that created an event and
\* recorded its announcement.
C2_Witness ==
    /\ obs.status = "saved"
    /\ pair.clean_prev /\ pair.cur_quiet /\ pair.cur_clean
    /\ ext = 0
    /\ Len(obs.trace) > 0
    /\ IdOf(2) \in {e.id : e \in platform}
    /\ \E k \in 1..Len(file.records) : file.records[k].event_id = IdOf(2)

\* C3 as stated: after a run, every record that was in the store at its start
\* with an event id that is not on the platform had its message's deletion
\* attempted and is no longer in the store.
C3_RetractionComplete ==
    obs.status \in {"saved", "aborted"} =>
        \A record \in obs.stale_at_start :
            Attempted(record) /\ record \notin Range(file.records)

\* C3 amended: after a run that reached its persist step, every record the
\* retraction phase found absent from the list guild.events returned had its
\* message's deletion attempted and is not in the store; the phase went over
\* every record loaded at the start.
C3_RetractionOfUnlisted ==
    obs.status = "saved" =>
        /\ \A record \in Range(obs.loaded) :
             \E k \in Checks : obs.ctrace[k].message = record
        /\ \A k \in Checks :
             obs.ctrace[k].message.event_id \notin IdsOf(obs.ctrace[k].list)
                => /\ obs.ctrace[k].status \in DeleteOutcomes
                   /\ obs.ctrace[k].message \notin Range(file.records)

\* A record loaded at the start was retracted and the run saved the store.
C3_Witness ==
    /\ obs.status = "saved"
    /\ \E k \in Checks :
         /\ obs.ctrace[k].message \in Range(obs.loaded)
         /\ obs.ctrace[k].message.event_id \notin IdsOf(obs.ctrace[k].list)
         /\ obs.ctrace[k].status \in DeleteOutcomes

\* C4: a record whose message's deletion failed otherwise than by "not
\* found" is still in the store the run saves.
C4_FailedDeletionKeepsRecord ==
    obs.status = "saved" =>
        \A k \in Checks :
            obs.ctrace[k].status = "500"
                => obs.ctrace[k].message \in Range(file.records)

\* The k-th candidate had an equal event in the list guild.events returned.
Listed(k) ==
    \E r \in Range(obs.trace[k].list) : SameEvent(r, obs.trace[k].event)

Created == {k \in Passes : obs.trace[k].outcome \in {"created", "announced"}}

\* C6: when a run-once run created events, what run() hands back to the
\* handler is their number, the handler reports it, and the summary counts
\* them.
C6_CountHandedBack ==
    (pc = "handled" /\ obs.status = "saved" /\ Created # {}) =>
        /\ run_result = PyInt(Cardinality(Created))
        /\ handler_result = "new events added"
        /\ obs.summary = [phrase |-> "added", count |-> Cardinality(Created)]

\* C7: when the calendar cannot be fetched or parsed, update_events returns
\* without raising, having made no remote call and left the store as it was.
C7_CalendarFailureAborts ==
    obs.fetch \in {"request_error", "malformed"} =>
        /\ obs.status = "aborted"
        /\ NoCalls
        /\ file = obs.file_at_start

\* C8: lhs == rhs is true exactly when name, start time, end time, metadata
\* and privacy level are equal; the id and the description play no part.
C8_StructuralEquality ==
    eq_result.done =>
        (eq_result.value <=>
            /\ lhs.name = rhs.name
            /\ lhs.start_time = rhs.start_time
            /\ lhs.end_time = rhs.end_time
            /\ lhs.metadata.location = rhs.metadata.location
            /\ lhs.privacy_level = rhs.privacy_level)

\* Two events that differ by id and description only compared equal.
C8_Witness ==
    /\ eq_result.done
    /\ eq_result.value
    /\ lhs.event_id = None /\ rhs.event_id # None
    /\ lhs.description # rhs.description

\* C9: two events whose times denote the same instants, and that agree on
\* name, metadata and privacy level, compare equal however the times are
\* written.
C9_TimesAsInstants ==
    (eq_result.done /\ SameEventInstants(lhs, rhs)) => eq_result.value

\* C10: loading a store that is no JSON raises nothing, warns and yields no
\* record; the run goes on with the empty history, so the store it saves
\* holds the records of this run only.
C10_CorruptedHistory ==
    (obs.fetch = "ok" /\ ~obs.file_at_start.valid) =>
        /\ ~obs.load_raised
        /\ obs.load_warning
        /\ obs.loaded = <<>>
        /\ pc = "loop" => history = <<>>
        /\ obs.status = "saved" => Range(file.records) \subseteq Range(sent_messages)

\* A run that found the store corrupted went on, announced an event and
\* saved its record.
C10_Witness ==
    /\ obs.fetch = "ok"
    /\ ~obs.file_at_start.valid
    /\ obs.status = "saved"
    /\ file.valid
    /\ file.records # <<>>

\* Every mandatory field is there.
ConfigComplete ==
    /\ config.source = "mapping"
    /\ "calendar_url" \in config.root
    /\ config.discord = "mapping"
    /\ {"token", "bot_url", "server_id"} \subseteq config.options

\* C11: when a mandatory field is missing, the process goes from its start
\* to a failure exit only (exit code 1 from the command line, by sys.exit(1)
\* or by an exception nobody catches; the 500 answer from the handler), no
\* pass is started, the platform's events are never pulled and no call is
\* made.
C11_InvalidConfigStops ==
    ~ConfigComplete =>
        /\ mode = "CLI" => pc \in {"setup", "exit1", "uncaught"}
        /\ mode = "ENV" => pc \in {"setup", "status500"}
        /\ pc = "status500" => handler_result = "Invalid configuration."
        /\ runs = 0
        /\ obs = NoObs
        /\ guild = [_events |-> <<>>, _events_last_pull |-> 0]
        /\ fails = 0
        /\ platform \subseteq {InitialEvent}

\* The handler answered 500 for a configuration that lacks one of the
\* platform's options only.
C11_Witness ==
    /\ pc = "status500"
    /\ config.root = RootOptions
    /\ config.options = {"token", "bot_url"}

\* C12: run() with run-once has made exactly one pass when it returns, and
\* no pass ends run() otherwise: with run-once it returns, without it the
\* loop goes on to the next pass until a termination signal, so that run()
\* is never left by an exception of a pass.
C12_RunLoop ==
    /\ (once /\ pc \in {"returned", "handled"}) => runs = 1
    /\ pc = "exited" => ~once
    /\ runs >= 1 => pc # "raised"

\* The positions of s that hold a unit right after a digit.
TokenEnds(s) == {q \in 2..Len(s) : s[q] \in Units /\ s[q - 1] \in Digits}

\* The first index of the run of digits that ends at q.
RECURSIVE TokenStart(_, _)
TokenStart(s, q) ==
    IF q > 1 /\ s[q - 1] \in Digits THEN TokenStart(s, q - 1) ELSE q

\* The number an <integer><unit> token that ends at q stands for.
TokenSeconds(s, q) ==
    LET number == int(SubSeq(s, TokenStart(s, q - 1), q - 1))
    IN  CASE s[q] = "d" -> number * 86400
          [] s[q] = "h" -> number * 3600
          [] s[q] = "m" -> number * 60
          [] s[q] = "s" -> number

RECURSIVE SumOver(_, _)
SumOver(s, ends) ==
    IF ends = {} THEN 0
    ELSE LET q == CHOOSE e \in ends : TRUE
         IN  TokenSeconds(s, q) + SumOver(s, ends \ {q})

\* C13: duration_to_seconds returns the sum of integer times unit over the
\* <integer><unit> tokens of its argument and ignores the rest; the result
\* is a natural number, 0 without a token, and the examples give 86400,
\* 86400, 109800, 0 and 0.
C13_DurationParsing ==
    ~seconds.is_none =>
        /\ seconds.value = SumOver(duration, TokenEnds(duration))
        /\ seconds.value \in Nat
        /\ TokenEnds(duration) = {} => seconds.value = 0
        /\ duration = <<"2", "4", "h">> => seconds.value = 86400
        /\ duration = <<"1", "d">> => seconds.value = 86400
        /\ duration = <<"1", "d", "6", "h", "3", "0", "m">> => seconds.value = 109800
        /\ duration \in {<<>>, <<"a", "b", "c">>} => seconds.value = 0

\* A string with a token, other text and a number without unit was parsed.
C13_Witness ==
    /\ ~seconds.is_none
    /\ duration = <<"1", "h", "x", "9">>
    /\ seconds.value = 3600

\* C14: when the announcement of a created event fails (create_invite or
\* create_message), update_events is not left by an exception and the
\* created event stays on the platform; when the loop is over, every
\* candidate has been dealt with, and the run goes on to save the records of
\* the announcements it posted.
C14_AnnouncementFailureAbsorbed ==
    \A k \in Passes :
        obs.trace[k].announce = "failed" =>
            /\ obs.trace[k].event_id \in {e.id : e \in platform}
            /\ obs.status # "raised"
            /\ pc \in {"loop", "cleanup", "ran", "returned", "handled"}
            /\ obs.status = "saved" =>
                  /\ Len(obs.trace) = Len(events)
                  /\ Range(sent_messages) \subseteq Range(file.records)

\* C15: as long as nobody else has changed the platform, the list the
\* process holds can differ from the platform only through a listing that
\* failed; then no candidate with an equal event on the platform is created
\* again, and no record of an event that is on the platform has its message
\* deleted or is missing from the store the run saves.
C15_FailedListingNotEmpty ==
    ext = 0 =>
        /\ \A k \in Passes :
             (\E r \in Range(obs.trace[k].before) : SameEvent(r, obs.trace[k].event))
                => ~obs.trace[k].called
        /\ \A k \in Checks :
             obs.ctrace[k].message.event_id \in {e.id : e \in platform} =>
                /\ obs.ctrace[k].status = "kept"
                /\ obs.status = "saved" =>
                      obs.ctrace[k].message \in Range(file.records)

\* The records the retraction phase has found in the list guild.events
\* returned, in the order it went over them.
RECURSIVE ListedRecords(_)
ListedRecords(checks) ==
    IF checks = <<>> THEN <<>>
    ELSE (IF checks[1].message.event_id \in IdsOf(checks[1].list)
          THEN <<checks[1].message>> ELSE <<>>) \o ListedRecords(Tail(checks))

C17_SameRunDedup ==
    \A k1 \in Passes, k2 \in Passes :
        (/\ k1 < k2
         /\ SameEvent(obs.trace[k1].event, obs.trace[k2].event)
         /\ obs.trace[k1].called
         /\ obs.trace[k1].event_id # EmptyId)
            => ~obs.trace[k2].called

\* C18: a run whose calendar yields no candidate calls neither create_event
\* nor create_invite nor create_message; it goes to the retraction phase with
\* the history it loaded, and the store it saves is what that phase kept of
\* the records loaded.
C18_EmptyWindowRetracts ==
    (obs.fetch = "ok" /\ obs.status # "none" /\ events = <<>>) =>
        /\ obs.creates = 0 /\ obs.invites = 0 /\ obs.messages = 0
        /\ obs.trace = <<>>
        /\ sent_messages = <<>>
        /\ obs.summary.phrase = "no_upcoming"
        /\ obs.status = "running" => (pc = "cleanup" /\ history = obs.loaded)
        /\ obs.status = "saved" =>
              /\ [k \in Checks |-> obs.ctrace[k].message] = obs.loaded
              /\ file = File(TRUE, ListedRecords(obs.ctrace))
              /\ \A k \in Checks :
                    obs.ctrace[k].message.event_id \notin IdsOf(obs.ctrace[k].list)
                        => obs.ctrace[k].status \in DeleteOutcomes

\* A run without candidates deleted the announcement of an event that was
\* gone and saved the store without its record.
C18_Witness ==
    /\ obs.fetch = "ok"
    /\ obs.status = "saved"
    /\ events = <<>>
    /\ obs.loaded # <<>>
    /\ obs.deletes = 1
    /\ file = File(TRUE, <<>>)

\* Every candidate has an equal event on the platform, and every record of
\* the store refers to an event that is there.
Converged ==
    /\ \A c \in Range(calendar) :
          \E e \in platform : SameEvent(EventOfApi(e), c)
    /\ file.valid
    /\ \A r \in Range(file.records) : r.event_id \in {e.id : e \in platform}

\* The process ended as it is meant to (wrong configuration, run-once,
\* termination signal), or made as many passes as the model follows.
Stopped ==
    \/ pc \in {"exit1", "status500", "uncaught", "returned", "handled", "exited"}
    \/ pc = "idle" /\ runs = MaxRuns

\* C19: the failures and the changes by others being finitely many, a process
\* in its loop that is not stopped goes on making passes until every
\* candidate has an equal event on the platform and no record refers to an
\* absent event.
C19_EventualConvergence ==
    (pc = "idle" /\ ~once) ~> (Converged \/ Stopped)

\* C20: _api_request gives up retrying by itself after a bounded number of
\* 429 answers, so that a request never goes on until the interpreter's
\* stack is exhausted.
C20_BoundedRetry == request.pc # "RecursionError"

\* ------------------------------------------------------------------- C21
\* save_history has been called in this call of update_events, from a state
\* where the retraction phase was over, and update_events returned with it.
SavedLast ==
    /\ obs.status = "saved"
    /\ pc \in {"ran", "returned", "handled"}
    /\ Len(obs.ctrace) = Len(obs.loaded) + Len(sent_messages)

\* C21: within a run the history store is written at most once, by the save
\* that ends update_events after the retraction phase; at every earlier point
\* of the run, and in a run that stopped before the save, the store holds
\* what it held when the run started. Every change of the store is that
\* save, writing the whole list the retraction phase returned.
C21_HistoryWrittenOnceLast ==
    /\ [](/\ obs.saves <= 1
          /\ obs.saves = 1 => SavedLast
          /\ obs.status \in {"running", "raised", "aborted"} =>
                (obs.saves = 0 /\ file = obs.file_at_start))
    /\ [][(file' # file \/ obs'.saves > obs.saves) =>
            /\ pc = "cleanup" /\ j > Len(history)
            /\ obs.saves = 0 /\ obs'.saves = 1
            /\ file' = File(TRUE, history')
            /\ pc' = AfterUpdate]_vars

\* A run that created an event and posted its announcement was stopped by an
\* exception before the save: the store holds what it held at the start,
\* without the record of the announcement.
C21_Witness ==
    /\ pc = "raised"
    /\ sent_messages # <<>>
    /\ obs.saves = 0
    /\ file = obs.file_at_start

\* ------------------------------------------------------------------- C22
\* The last use was a read of a cached list that made `pulls` refreshes of
\* it: none and the cached list handed out while no more than the TTL has
\* elapsed since the last pull, exactly one past that.
ReadWithinTtl(pulls, ttl) ==
    /\ lookup.elapsed <= ttl =>
          (pulls = 0 /\ ~lookup.raised /\ lookup.returned = lookup.cached)
    /\ lookup.elapsed > ttl => pulls = 1

\* C22: a read of guild.events or guild.channels hands out the cached list
\* without a request as long as no more than the TTL (3600 s) has elapsed
\* since the last pull of that list, and makes exactly one refresh on the
\* first read after that, which the reads that follow find fresh; a read of
\* one list never refreshes the other; apart from expiry the events list is
\* pulled only by the constructor and by create_event once its POST is
\* answered, and the cache changes by a pull only.
C22_TtlCache ==
    /\ [](/\ lookup.op = "events" =>
                (ReadWithinTtl(lookup.event_pulls, _events_list_ttl)
                 /\ lookup.channel_pulls = 0)
          /\ lookup.op = "channels" =>
                (ReadWithinTtl(lookup.channel_pulls, _channels_list_ttl)
                 /\ lookup.event_pulls = 0)
          /\ lookup.op = "create_event" =>
                (lookup.channel_pulls = 0
                 /\ lookup.event_pulls <= 1
                 /\ (lookup.event_pulls = 0 => lookup.raised)
                 /\ (~lookup.raised => guild._events_last_pull = lookup.at))
          /\ lookup.op = "construct" => lookup.event_pulls = 1
          /\ (lookup.op \in {"events", "channels"} /\ ~lookup.raised /\ pc = "ttl") =>
                (LET last == IF lookup.op = "events" THEN guild._events_last_pull
                             ELSE guild._channels_last_pull
                 IN  lookup.at - last = IF lookup.elapsed > _events_list_ttl
                                        THEN 0 ELSE lookup.elapsed))
    /\ [][/\ (guild'._events # guild._events
              \/ guild'._events_last_pull # guild._events_last_pull) =>
                 (lookup'.event_pulls = 1 /\ lookup'.at = now
                  /\ lookup'.op \in {"construct", "events", "create_event"})
          /\ (guild'._channels # guild._channels
              \/ guild'._channels_last_pull # guild._channels_last_pull) =>
                 (lookup'.channel_pulls = 1 /\ lookup'.at = now
                  /\ lookup'.op \in {"construct", "channels"})]_vars

\* Exactly 3600 s after the last pull, the events list is read: no request is
\* made and the cached list is handed out although the platform's list is
\* another at that time.
C22_Witness ==
    /\ lookup.op = "events"
    /\ lookup.elapsed = _events_list_ttl
    /\ lookup.event_pulls = 0
    /\ lookup.returned = guild._events
    /\ lookup.returned # lookup.remote
    /\ lookup.at = now
    /\ fails = 0

\* ------------------------------------------------------------------- C23
\* The records the store holds that the running process does not: the other
\* process saved them after this one loaded its list.
SavedByOther == Range(file.records) \ Range(history)

\* C23: with two processes on one store, nothing holds a save back or merges
\* it: the save of a process replaces the file by that process's own list,
\* so every record the other saved since this one loaded is gone after it
\* (last writer wins).
C23_LastWriterWins ==
    [][(instances'.running = instances.running
        /\ pc = "cleanup" /\ j > Len(history) /\ pc' = AfterUpdate) =>
           /\ Range(file'.records) \subseteq Range(history)
           /\ \A r \in SavedByOther : r \notin Range(file'.records)]_vars

\* Both processes have returned. One saved the record of an announcement it
\* posted for an event it created; the other, which had loaded before that,
\* saved last: the file lacks the record although the event is still on the
\* platform, and no later run will retract the announcement.
C23_Witness ==
    /\ pc = "returned" /\ obs.status = "saved"
    /\ instances.waiting.pc = "returned"
    /\ instances.waiting.obs.status = "saved"
    /\ fails = 0
    /\ \E r \in Range(instances.waiting.history) :
         /\ r \in Range(instances.waiting.sent_messages)
         /\ r \notin Range(file.records)
         /\ r.event_id \in {e.id : e \in platform}


====
